---- MODULE Spec2Model ----
(***************************************************************************)
(* Model of the Simple Traces example clients.                             *)
(*                                                                         *)
(*   examples/client.py            create_trace and main (JSON over HTTP)  *)
(*   examples/otel-client.py       init_tracer, four examples and main     *)
(*   examples/python_otlp_client.py  main                                  *)
(*                                                                         *)
(* Python values are modelled as tagged records, dictionaries as functions *)
(* from keys to values, and the remote endpoint as an environment that may *)
(* answer a POST in any way.                                               *)
(***************************************************************************)
EXTENDS Integers, Sequences, FiniteSets, TLC

VARIABLES
    args,        \* create_trace: the arguments of the current invocation
    payload,     \* create_trace: the local `payload` dict
    ct_pc,       \* create_trace: "idle", "built", "inflight", "done"
    wire,        \* the JSON body of the request most recently sent
    response,    \* the endpoint's answer to the request most recently sent
    ret,         \* create_trace: the value returned (meaningful when done)
    exc,         \* create_trace: the exception that left the call, or "none"
    nposts,      \* number of requests.post calls performed so far
    ncalls,      \* number of create_trace invocations started so far
    inflight,    \* number of requests awaiting their response
    sent,        \* the `model` of every request sent, in order
    unreachable, \* whether some request so far met a transport error
    json_error_is_request_exception,
                 \* the installed requests raises its own JSONDecodeError
                 \* (a RequestException) from Response.json(), or a ValueError
    main_pc,     \* client.py main: "off", "run", "sleep", "returned", "raised"
    main_i,      \* client.py main: number of create_trace calls completed
    environ,     \* OTel scripts: the process environment of each script
    sp_pc,       \* OTel scripts: index of the next statement of each script
    sp_status,   \* OTel scripts: "running", "raising", "exit0" or "exit1"
    sp_stack,    \* OTel scripts: the spans currently open, innermost last
    sp_log,      \* OTel scripts: span starts and ends and provider shutdowns
    sp_out,      \* OTel scripts: the messages printed so far
    sp_exporter, \* OTel scripts: the endpoints given to OTLPSpanExporter
    sp_ran,      \* OTel scripts: the functions entered so far
    sp_exc       \* OTel scripts: the statement that raised, or 0

client_vars == <<args, payload, ct_pc, wire, response, ret, exc, nposts, ncalls,
                 inflight, sent, unreachable, json_error_is_request_exception,
                 main_pc, main_i>>

script_vars == <<environ, sp_pc, sp_status, sp_stack, sp_log, sp_out,
                 sp_exporter, sp_ran, sp_exc>>

vars == <<client_vars, script_vars>>

----------------------------------------------------------------------------
(* Bounds of the model *)

MaxCalls == 2
MaxTokens == 1

----------------------------------------------------------------------------
(* Python values *)

EmptyDict == [k \in {} |-> ""]

None == [tag |-> "None", items |-> EmptyDict]

Dict(d) == [tag |-> "dict", items |-> d]

\* Python truthiness of None and of a dict
Truthy(v) == v.tag = "dict" /\ DOMAIN v.items # {}

----------------------------------------------------------------------------
(* examples/client.py: create_trace *)

PayloadKeys == {"model", "input", "output", "prompt_tokens", "output_tokens",
                "duration"}

\* A variant of the payload construction that tests `metadata is not None`
BuildPayload_IsNotNone(a) ==
    LET base == [model |-> a.model, input |-> a.input_text,
                 output |-> a.output_text, prompt_tokens |-> a.prompt_tokens,
                 output_tokens |-> a.output_tokens, duration |-> a.duration_ms]
    IN  IF a.metadata.tag # "None" THEN base @@ ("metadata" :> a.metadata)
        ELSE base

\* A variant of the payload construction that clamps negative numbers to 0
BuildPayload_Clamped(a) ==
    LET Clamp(n) == IF n < 0 THEN 0 ELSE n
        base == [model |-> a.model, input |-> a.input_text,
                 output |-> a.output_text,
                 prompt_tokens |-> Clamp(a.prompt_tokens),
                 output_tokens |-> Clamp(a.output_tokens),
                 duration |-> Clamp(a.duration_ms)]
    IN  IF Truthy(a.metadata) THEN base @@ ("metadata" :> a.metadata)
        ELSE base

\* payload = {...}; if metadata: payload["metadata"] = metadata
BuildPayload(a) ==
    LET base == [model |-> a.model, input |-> a.input_text,
                 output |-> a.output_text, prompt_tokens |-> a.prompt_tokens,
                 output_tokens |-> a.output_tokens, duration |-> a.duration_ms]
    IN  IF Truthy(a.metadata) THEN base @@ ("metadata" :> a.metadata)
        ELSE base

\* The answers a POST can meet.  err: requests.post raised a transport
\* error (ConnectionError, Timeout, ...); otherwise an HTTP response with a
\* status code and a body.
Bodies ==
    { [kind |-> "object", fields |-> ("id" :> "t1")],
      [kind |-> "object", fields |-> ("id" :> "t2") @@ ("model" :> "gpt-4")],
      [kind |-> "object", fields |-> ("error" :> "bad request")],
      [kind |-> "object", fields |-> EmptyDict],
      [kind |-> "array",  fields |-> EmptyDict],
      [kind |-> "text",   fields |-> EmptyDict] }

Statuses == {200, 201, 300, 404, 500}

NoResponse == [err |-> FALSE, status |-> 0,
               body |-> [kind |-> "text", fields |-> EmptyDict]]

TransportError == [err |-> TRUE, status |-> 0,
                   body |-> [kind |-> "text", fields |-> EmptyDict]]

Responses ==
    {TransportError} \cup
    { [err |-> FALSE, status |-> s, body |-> b] : s \in Statuses, b \in Bodies }

Is2xx(r) == ~r.err /\ 200 <= r.status /\ r.status < 300

HasId(b) == b.kind = "object" /\ "id" \in DOMAIN b.fields

\* A variant of raise_for_status that only reports server errors
RaiseForStatus_5xxOnly(r) == 500 <= r.status /\ r.status < 600

\* response.raise_for_status(): raises HTTPError for 4xx and 5xx
RaiseForStatus(r) == 400 <= r.status /\ r.status < 600

\* response.json() fails on a body that is not JSON
JsonFails(r) == r.body.kind = "text"

\* result['id']: the exception the subscript raises, or "none"
SubscriptId(b) ==
    IF b.kind = "object"
    THEN IF "id" \in DOMAIN b.fields THEN "none" ELSE "KeyError"
    ELSE "TypeError"

Returned(v) == [ret |-> v, exc |-> "none"]

Propagates(e) == [ret |-> None, exc |-> e]

\* A variant of the try block that forgets to return the decoded response
TryPost_NoReturn(r, jre) ==
    IF r.err THEN Returned(None)
    ELSE IF RaiseForStatus(r) THEN Returned(None)
    ELSE IF JsonFails(r)
         THEN IF jre THEN Returned(None) ELSE Propagates("ValueError")
    ELSE IF SubscriptId(r.body) # "none" THEN Propagates(SubscriptId(r.body))
    ELSE Returned(None)

\* The try block of create_trace, from the answer to the POST to the way the
\* call ends.  Only requests.exceptions.RequestException is caught.
TryPost(r, jre) ==
    IF r.err THEN Returned(None)
    ELSE IF RaiseForStatus(r) THEN Returned(None)
    ELSE IF JsonFails(r)
         THEN IF jre THEN Returned(None) ELSE Propagates("ValueError")
    ELSE IF SubscriptId(r.body) # "none" THEN Propagates(SubscriptId(r.body))
    ELSE Returned(Dict(r.body.fields))

Models == {"gpt-4", "claude-3"}

TokenCounts == (0 - MaxTokens)..MaxTokens

Metadatas == {None, Dict(EmptyDict), Dict(("user_id" :> "user_12345"))}

Args ==
    [model : Models, input_text : {"hello"}, output_text : {"world"},
     prompt_tokens : TokenCounts, output_tokens : TokenCounts,
     duration_ms : TokenCounts, metadata : Metadatas]

NoArgs == [model |-> "", input_text |-> "", output_text |-> "",
           prompt_tokens |-> 0, output_tokens |-> 0, duration_ms |-> 0,
           metadata |-> None]

\* Entry of create_trace with arguments a: the payload is built
Enter(a) ==
    /\ ct_pc = "idle"
    /\ args' = a
    /\ payload' = BuildPayload(a)
    /\ ct_pc' = "built"
    /\ ncalls' = ncalls + 1
    /\ ret' = None
    /\ exc' = "none"
    /\ UNCHANGED <<wire, response, nposts, inflight, sent, unreachable,
                   json_error_is_request_exception>>

\* A caller other than main invokes create_trace
Call ==
    /\ main_pc = "off"
    /\ ncalls < MaxCalls
    /\ \E a \in Args : Enter(a)
    /\ UNCHANGED script_vars
    /\ UNCHANGED <<main_pc, main_i>>

\* requests.post(API_URL, json=payload): the request leaves
Post ==
    /\ ct_pc = "built"
    /\ wire' = payload
    /\ nposts' = nposts + 1
    /\ inflight' = inflight + 1
    /\ sent' = Append(sent, payload.model)
    /\ ct_pc' = "inflight"
    /\ UNCHANGED script_vars
    /\ UNCHANGED <<args, payload, response, ret, exc, ncalls, unreachable,
                   json_error_is_request_exception, main_pc, main_i>>

\* A variant of the end of the call that posts again after a failure
Respond_Retry ==
    /\ ct_pc = "inflight"
    /\ \E r \in Responses :
        /\ response' = r
        /\ inflight' = inflight - 1
        /\ unreachable' = (unreachable \/ r.err)
        /\ LET out == TryPost(r, json_error_is_request_exception)
           IN  /\ ret' = out.ret
               /\ exc' = out.exc
               /\ ct_pc' = IF out.ret = None /\ out.exc = "none" /\ nposts < 3
                           THEN "built" ELSE "done"
    /\ UNCHANGED script_vars
    /\ UNCHANGED <<args, payload, wire, nposts, ncalls, sent,
                   json_error_is_request_exception, main_pc, main_i>>

\* The answer arrives and the rest of the try block runs to the end of the
\* call: a return or a propagating exception
Respond ==
    /\ ct_pc = "inflight"
    /\ \E r \in Responses :
        /\ response' = r
        /\ inflight' = inflight - 1
        /\ unreachable' = (unreachable \/ r.err)
        /\ LET out == TryPost(r, json_error_is_request_exception)
           IN  /\ ret' = out.ret
               /\ exc' = out.exc
    /\ ct_pc' = "done"
    /\ UNCHANGED script_vars
    /\ UNCHANGED <<args, payload, wire, nposts, ncalls, sent,
                   json_error_is_request_exception, main_pc, main_i>>

\* Control is back in the caller and the frame of create_trace is gone; the
\* caller may call create_trace again
Return ==
    /\ main_pc = "off"
    /\ ct_pc = "done"
    /\ ct_pc' = "idle"
    /\ args' = NoArgs
    /\ payload' = EmptyDict
    /\ wire' = EmptyDict
    /\ response' = NoResponse
    /\ ret' = None
    /\ exc' = "none"
    /\ UNCHANGED script_vars
    /\ UNCHANGED <<nposts, ncalls, inflight, sent, unreachable,
                   json_error_is_request_exception, main_pc, main_i>>

InitClient ==
    /\ args = NoArgs
    /\ payload = EmptyDict
    /\ ct_pc = "idle"
    /\ wire = EmptyDict
    /\ response = NoResponse
    /\ ret = None
    /\ exc = "none"
    /\ nposts = 0
    /\ ncalls = 0
    /\ inflight = 0
    /\ sent = <<>>
    /\ unreachable = FALSE
    /\ json_error_is_request_exception \in BOOLEAN
    /\ main_i = 0

----------------------------------------------------------------------------
(* examples/client.py: main *)

ExampleMetadata ==
    Dict(("user_id" :> "user_12345") @@ ("session_id" :> "session_abc") @@
         ("temperature" :> "0.7") @@ ("max_tokens" :> "100"))

LoopModels == <<"gpt-3.5-turbo", "gpt-4", "claude-3-sonnet">>

LoopCall(m) ==
    [model |-> m, input_text |-> "Test prompt for " \o m,
     output_text |-> "Test response from " \o m,
     prompt_tokens |-> 10, output_tokens |-> 25, duration_ms |-> 800,
     metadata |-> None]

\* The create_trace calls of main, in program order
MainCalls ==
    << [model |-> "gpt-4", input_text |-> "What is machine learning?",
        output_text |-> "Machine learning is a subset of artificial intelligence...",
        prompt_tokens |-> 15, output_tokens |-> 45, duration_ms |-> 1200,
        metadata |-> None],
       [model |-> "claude-3-opus",
        input_text |-> "Explain quantum computing in simple terms",
        output_text |-> "Quantum computing uses quantum mechanics principles...",
        prompt_tokens |-> 20, output_tokens |-> 60, duration_ms |-> 1500,
        metadata |-> ExampleMetadata] >>
    \o [i \in 1..Len(LoopModels) |-> LoopCall(LoopModels[i])]

\* main reaches its next create_trace call
MainCall ==
    /\ main_pc = "run"
    /\ main_i < Len(MainCalls)
    /\ Enter(MainCalls[main_i + 1])
    /\ UNCHANGED script_vars
    /\ UNCHANGED <<main_pc, main_i>>

\* create_trace ends: main goes on (its return value is ignored), or the
\* exception that left create_trace leaves main too
MainReturn ==
    /\ main_pc = "run"
    /\ ct_pc = "done"
    /\ ct_pc' = "idle"
    /\ IF exc # "none"
       THEN /\ main_pc' = "raised"
            /\ main_i' = main_i
       ELSE /\ main_i' = main_i + 1
            /\ main_pc' = IF main_i + 1 > 2 THEN "sleep" ELSE "run"
    /\ UNCHANGED script_vars
    /\ UNCHANGED <<args, payload, wire, response, ret, exc, nposts, ncalls,
                   inflight, sent, unreachable,
                   json_error_is_request_exception>>

\* time.sleep(0.1) at the end of each iteration of the loop
MainSleep ==
    /\ main_pc = "sleep"
    /\ main_pc' = IF main_i < Len(MainCalls) THEN "run" ELSE "returned"
    /\ UNCHANGED script_vars
    /\ UNCHANGED <<args, payload, ct_pc, wire, response, ret, exc, nposts,
                   ncalls, inflight, sent, unreachable,
                   json_error_is_request_exception, main_i>>

----------------------------------------------------------------------------
(* examples/otel-client.py and examples/python_otlp_client.py *)

\* The two scripts, each run as a process of its own
Procs == {"otel-client", "python_otlp_client"}

\* otel-client.py: OTLP_ENDPOINT = "http://localhost:8080/v1/traces"
OTLP_ENDPOINT == "http://localhost:8080/v1/traces"

EmptyEnv == [k \in {} |-> ""]

Environs ==
    { EmptyEnv,
      "OTLP_ENDPOINT" :> "http://collector:4318/v1/traces",
      "OTLP_ENDPOINT" :> "" }

\* os.getenv(key, default)
getenv(env, key, default) == IF key \in DOMAIN env THEN env[key] ELSE default

\* otel-client.py init_tracer: OTLPSpanExporter(endpoint=OTLP_ENDPOINT)
OtelClientEndpoint(env) == OTLP_ENDPOINT

\* A variant of the endpoint selection that never reads the environment
OtlpClientEndpoint_Fixed(env) == "http://localhost:8080/v1/traces"

\* python_otlp_client.py main: endpoint = os.getenv("OTLP_ENDPOINT", default)
OtlpClientEndpoint(env) ==
    getenv(env, "OTLP_ENDPOINT", "http://localhost:8080/v1/traces")

Ins(op, arg, fn) == [op |-> op, arg |-> arg, fn |-> fn]

\* The statements of otel-client.py main, with the examples it calls inlined
OtelClientMain ==
    << Ins("print", "OpenTelemetry Simple Traces Example Client (Python)", "main"),
       Ins("exporter", "", "init_tracer"),
       Ins("print", "OpenTelemetry initialized with OTLP exporter", "init_tracer"),
       Ins("print", "--- Simple Trace Example ---", "simple_trace_example"),
       Ins("start", "llm.call", "simple_trace_example"),
       Ins("work", "llm.call", "simple_trace_example"),
       Ins("end", "llm.call", "simple_trace_example"),
       Ins("print", "Simple trace sent", "simple_trace_example"),
       Ins("print", "--- Nested Trace Example ---", "nested_trace_example"),
       Ins("start", "llm.conversation", "nested_trace_example"),
       Ins("start", "llm.call.1", "nested_trace_example"),
       Ins("work", "llm.call.1", "nested_trace_example"),
       Ins("end", "llm.call.1", "nested_trace_example"),
       Ins("start", "llm.call.2", "nested_trace_example"),
       Ins("work", "llm.call.2", "nested_trace_example"),
       Ins("end", "llm.call.2", "nested_trace_example"),
       Ins("end", "llm.conversation", "nested_trace_example"),
       Ins("print", "Nested trace sent", "nested_trace_example"),
       Ins("print", "--- Gen AI Semantic Conventions Example ---", "gen_ai_trace_example"),
       Ins("start", "gen_ai.completion", "gen_ai_trace_example"),
       Ins("work", "gen_ai.completion", "gen_ai_trace_example"),
       Ins("end", "gen_ai.completion", "gen_ai_trace_example"),
       Ins("print", "Gen AI trace sent", "gen_ai_trace_example"),
       Ins("print", "--- Trace with Events Example ---", "trace_with_events_example"),
       Ins("start", "llm.streaming_call", "trace_with_events_example"),
       Ins("work", "llm.streaming_call", "trace_with_events_example"),
       Ins("end", "llm.streaming_call", "trace_with_events_example"),
       Ins("print", "Trace with events sent", "trace_with_events_example"),
       Ins("sleep", "2", "main"),
       Ins("print", "All examples completed!", "main"),
       Ins("print", "Check the Simple Traces UI", "main") >>

\* A variant of python_otlp_client.py main that shuts the provider down
\* inside the conversation span
OtlpClientMain_EarlyShutdown ==
    << Ins("exporter", "", "main"),
       Ins("print", "Sending traces to Simple Traces collector", "main"),
       Ins("start", "llm-chat-completion", "main"),
       Ins("work", "llm-chat-completion", "main"),
       Ins("end", "llm-chat-completion", "main"),
       Ins("print", "Sent trace with LLM attributes", "main"),
       Ins("start", "gen-ai-completion", "main"),
       Ins("work", "gen-ai-completion", "main"),
       Ins("end", "gen-ai-completion", "main"),
       Ins("print", "Sent trace with Gen AI semantic conventions", "main"),
       Ins("start", "conversation", "main"),
       Ins("work", "conversation", "main"),
       Ins("start", "message-1", "main"),
       Ins("work", "message-1", "main"),
       Ins("end", "message-1", "main"),
       Ins("start", "message-2", "main"),
       Ins("work", "message-2", "main"),
       Ins("end", "message-2", "main"),
       Ins("print", "Shutting down tracer provider...", "main"),
       Ins("shutdown", "", "main"),
       Ins("end", "conversation", "main"),
       Ins("print", "Sent nested conversation traces", "main"),
       Ins("print", "All traces sent successfully!", "main") >>

\* The statements of python_otlp_client.py main
OtlpClientMain ==
    << Ins("exporter", "", "main"),
       Ins("print", "Sending traces to Simple Traces collector", "main"),
       Ins("start", "llm-chat-completion", "main"),
       Ins("work", "llm-chat-completion", "main"),
       Ins("end", "llm-chat-completion", "main"),
       Ins("print", "Sent trace with LLM attributes", "main"),
       Ins("start", "gen-ai-completion", "main"),
       Ins("work", "gen-ai-completion", "main"),
       Ins("end", "gen-ai-completion", "main"),
       Ins("print", "Sent trace with Gen AI semantic conventions", "main"),
       Ins("start", "conversation", "main"),
       Ins("work", "conversation", "main"),
       Ins("start", "message-1", "main"),
       Ins("work", "message-1", "main"),
       Ins("end", "message-1", "main"),
       Ins("start", "message-2", "main"),
       Ins("work", "message-2", "main"),
       Ins("end", "message-2", "main"),
       Ins("end", "conversation", "main"),
       Ins("print", "Sent nested conversation traces", "main"),
       Ins("print", "Shutting down tracer provider...", "main"),
       Ins("shutdown", "", "main"),
       Ins("print", "All traces sent successfully!", "main") >>

Prog(p) == IF p = "otel-client" THEN OtelClientMain ELSE OtlpClientMain

Endpoint(p, env) ==
    IF p = "otel-client" THEN OtelClientEndpoint(env)
    ELSE OtlpClientEndpoint(env)

Top(st) == IF st = <<>> THEN "" ELSE st[Len(st)]

Without(st, name) == SelectSeq(st, LAMBDA x : x # name)

Ev(kind, name, parent) == [ev |-> kind, span |-> name, parent |-> parent]

\* The statements in which the model lets an exception arise: the creation
\* of the exporter and provider, and the body of a `with` block
MayRaise(ins) == ins.op \in {"exporter", "work"}

\* The effect of statement ins of script p, which then goes on to the next.
\* tracer.start_as_current_span makes the new span a child of the current
\* one; leaving the `with` block ends it.
Exec(p, ins) ==
    /\ sp_ran' = [sp_ran EXCEPT ![p] = @ \cup {ins.fn}]
    /\ sp_pc' = [sp_pc EXCEPT ![p] = @ + 1]
    /\ sp_out' = [sp_out EXCEPT ![p] =
                    IF ins.op = "print" THEN Append(@, ins.arg)
                    ELSE IF ins.op = "shutdown"
                         THEN Append(@, "Tracer provider shutdown successfully")
                    ELSE @]
    /\ sp_exporter' = [sp_exporter EXCEPT ![p] =
                    IF ins.op = "exporter" THEN @ \cup {Endpoint(p, environ[p])}
                    ELSE @]
    /\ sp_stack' = [sp_stack EXCEPT ![p] =
                    IF ins.op = "start" THEN Append(@, ins.arg)
                    ELSE IF ins.op = "end" THEN Without(@, ins.arg)
                    ELSE @]
    /\ sp_log' = [sp_log EXCEPT ![p] =
                    IF ins.op = "start"
                    THEN Append(@, Ev("start", ins.arg, Top(sp_stack[p])))
                    ELSE IF ins.op = "end" THEN Append(@, Ev("end", ins.arg, ""))
                    ELSE IF ins.op = "shutdown" THEN Append(@, Ev("shutdown", "", ""))
                    ELSE @]

\* Script p runs its next statement
Step(p) ==
    /\ sp_status[p] = "running"
    /\ sp_pc[p] <= Len(Prog(p))
    /\ Exec(p, Prog(p)[sp_pc[p]])
    /\ UNCHANGED client_vars
    /\ UNCHANGED <<environ, sp_status, sp_exc>>

\* python_otlp_client.py: shutdown() raises; the except clause around it
\* prints a warning and main goes on
ShutdownRaises ==
    LET p == "python_otlp_client" IN
    /\ sp_status[p] = "running"
    /\ sp_pc[p] <= Len(Prog(p))
    /\ Prog(p)[sp_pc[p]].op = "shutdown"
    /\ sp_pc' = [sp_pc EXCEPT ![p] = @ + 1]
    /\ sp_log' = [sp_log EXCEPT ![p] = Append(@, Ev("shutdown", "", ""))]
    /\ sp_out' = [sp_out EXCEPT ![p] = Append(@, "Warning: Error during shutdown")]
    /\ UNCHANGED client_vars
    /\ UNCHANGED <<environ, sp_status, sp_stack, sp_exporter, sp_ran, sp_exc>>

\* The next statement of script p raises an exception
Raise(p) ==
    /\ sp_status[p] = "running"
    /\ sp_pc[p] <= Len(Prog(p))
    /\ MayRaise(Prog(p)[sp_pc[p]])
    /\ sp_status' = [sp_status EXCEPT ![p] = "raising"]
    /\ sp_exc' = [sp_exc EXCEPT ![p] = sp_pc[p]]
    /\ sp_ran' = [sp_ran EXCEPT ![p] = @ \cup {Prog(p)[sp_pc[p]].fn}]
    /\ UNCHANGED client_vars
    /\ UNCHANGED <<environ, sp_pc, sp_stack, sp_log, sp_out, sp_exporter>>

\* The exception leaves the innermost open `with` block, which ends its span
Unwind(p) ==
    /\ sp_status[p] = "raising"
    /\ sp_stack[p] # <<>>
    /\ sp_stack' = [sp_stack EXCEPT ![p] = SubSeq(@, 1, Len(@) - 1)]
    /\ sp_log' = [sp_log EXCEPT ![p] = Append(@, Ev("end", Top(sp_stack[p]), ""))]
    /\ UNCHANGED client_vars
    /\ UNCHANGED <<environ, sp_pc, sp_status, sp_out, sp_exporter, sp_ran, sp_exc>>

\* A variant of the except clause of otel-client.py main without exit(1):
\* main then returns normally
OtelExcept_NoExit ==
    LET p == "otel-client" IN
    /\ sp_status[p] = "raising"
    /\ sp_stack[p] = <<>>
    /\ sp_out' = [sp_out EXCEPT ![p] = Append(@, "Error")]
    /\ sp_status' = [sp_status EXCEPT ![p] = "exit0"]
    /\ UNCHANGED client_vars
    /\ UNCHANGED <<environ, sp_pc, sp_stack, sp_log, sp_exporter, sp_ran, sp_exc>>

\* otel-client.py main: except Exception: print the error and the traceback,
\* exit(1)
OtelExcept ==
    LET p == "otel-client" IN
    /\ sp_status[p] = "raising"
    /\ sp_stack[p] = <<>>
    /\ sp_out' = [sp_out EXCEPT ![p] = Append(@, "Error")]
    /\ sp_status' = [sp_status EXCEPT ![p] = "exit1"]
    /\ UNCHANGED client_vars
    /\ UNCHANGED <<environ, sp_pc, sp_stack, sp_log, sp_exporter, sp_ran, sp_exc>>

\* python_otlp_client.py main has no handler around its spans: the exception
\* leaves main and the interpreter exits with status 1
OtlpUncaught ==
    LET p == "python_otlp_client" IN
    /\ sp_status[p] = "raising"
    /\ sp_stack[p] = <<>>
    /\ sp_out' = [sp_out EXCEPT ![p] = Append(@, "Traceback")]
    /\ sp_status' = [sp_status EXCEPT ![p] = "exit1"]
    /\ UNCHANGED client_vars
    /\ UNCHANGED <<environ, sp_pc, sp_stack, sp_log, sp_exporter, sp_ran, sp_exc>>

\* main returns and the process exits with status 0
Exit(p) ==
    /\ sp_status[p] = "running"
    /\ sp_pc[p] > Len(Prog(p))
    /\ sp_status' = [sp_status EXCEPT ![p] = "exit0"]
    /\ UNCHANGED client_vars
    /\ UNCHANGED <<environ, sp_pc, sp_stack, sp_log, sp_out, sp_exporter,
                   sp_ran, sp_exc>>

InitScripts ==
    /\ sp_pc = [p \in Procs |-> 1]
    /\ sp_status = [p \in Procs |-> "running"]
    /\ sp_stack = [p \in Procs |-> <<>>]
    /\ sp_log = [p \in Procs |-> <<>>]
    /\ sp_out = [p \in Procs |-> <<>>]
    /\ sp_exporter = [p \in Procs |-> {}]
    /\ sp_ran = [p \in Procs |-> {}]
    /\ sp_exc = [p \in Procs |-> 0]

Init ==
    /\ InitClient
    /\ main_pc = "off"
    /\ InitScripts
    /\ environ = [p \in Procs |-> EmptyEnv]

Next == Call \/ Post \/ Respond \/ Return

Spec == Init /\ [][Next]_vars

InitMain ==
    /\ InitClient
    /\ main_pc = "run"
    /\ InitScripts
    /\ environ = [p \in Procs |-> EmptyEnv]

NextMain == MainCall \/ Post \/ Respond \/ MainReturn \/ MainSleep

SpecMain == InitMain /\ [][NextMain]_vars

InitOtel ==
    /\ InitClient
    /\ main_pc = "off"
    /\ InitScripts
    /\ environ \in [Procs -> Environs]

NextOtel ==
    \/ \E p \in Procs : Step(p)
    \/ \E p \in Procs : Raise(p)
    \/ \E p \in Procs : Unwind(p)
    \/ \E p \in Procs : Exit(p)
    \/ ShutdownRaises
    \/ OtelExcept
    \/ OtlpUncaught

SpecOtel == InitOtel /\ [][NextOtel]_vars

----------------------------------------------------------------------------
(* Properties of create_trace, checked under Spec *)

Posted == ct_pc \in {"inflight", "done"}

ReturnedNone == ret = None /\ exc = "none"

\* C1 as stated: whenever the POST meets a transport error or any status
\* outside 200..299, create_trace returns None and raises nothing.
C1_AnyNon2xxReturnsNone ==
    (ct_pc = "done" /\ (response.err \/ ~Is2xx(response))) => ReturnedNone

\* C1 (amended): whenever the POST meets a transport error or a status in
\* 400..599, create_trace returns None and no exception reaches the caller.
C1_ErrorStatusReturnsNone ==
    (ct_pc = "done" /\
     (response.err \/ (400 <= response.status /\ response.status <= 599)))
    => ReturnedNone

C1_Witness ==
    /\ ct_pc = "done"
    /\ ~response.err
    /\ response.status = 404
    /\ HasId(response.body)
    /\ ReturnedNone

\* C2: whenever the POST receives a 2xx response whose body is not a JSON
\* object with an `id` field, create_trace returns None and raises nothing.
C2_MalformedBodyReturnsNone ==
    (ct_pc = "done" /\ Is2xx(response) /\ ~HasId(response.body))
    => ReturnedNone

\* C3: every invocation of create_trace performs exactly one POST, whatever
\* the outcome: the number of POSTs equals the number of invocations that
\* reached the network call, no request waits beside another, and the
\* request on the wire is the one of the current invocation.
C3_OnePostPerCall ==
    /\ inflight \in {0, 1}
    /\ inflight = 1 <=> ct_pc = "inflight"
    /\ ct_pc = "built" => nposts = ncalls - 1
    /\ ct_pc \in {"idle", "inflight", "done"} => nposts = ncalls
    /\ Len(sent) = nposts
    /\ Posted => sent[nposts] = args.model

C3_Witness ==
    /\ ct_pc = "done"
    /\ ncalls = 2
    /\ nposts = 2
    /\ response.status = 500
    /\ ReturnedNone

SixFieldsAsSupplied ==
    /\ wire.model = args.model
    /\ wire.input = args.input_text
    /\ wire.output = args.output_text
    /\ wire.prompt_tokens = args.prompt_tokens
    /\ wire.output_tokens = args.output_tokens
    /\ wire.duration = args.duration_ms

\* C4 as stated: the request body holds the six keys with the arguments
\* unchanged, and the key metadata exactly when a mapping was supplied.
C4_MetadataIffSupplied ==
    Posted =>
        /\ DOMAIN wire = PayloadKeys \cup
               (IF args.metadata.tag = "dict" THEN {"metadata"} ELSE {})
        /\ SixFieldsAsSupplied
        /\ "metadata" \in DOMAIN wire => wire.metadata = args.metadata

\* C4 (amended): the request body holds the six keys with the arguments
\* unchanged, and the key metadata, with the argument unchanged, exactly
\* when a non-empty mapping was supplied; it holds no other key.
C4_MetadataIffNonEmpty ==
    Posted =>
        /\ DOMAIN wire = PayloadKeys \cup
               (IF args.metadata.tag = "dict" /\ DOMAIN args.metadata.items # {}
                THEN {"metadata"} ELSE {})
        /\ SixFieldsAsSupplied
        /\ "metadata" \in DOMAIN wire => wire.metadata = args.metadata

C4_Witness ==
    /\ ct_pc = "inflight"
    /\ args.metadata = Dict(EmptyDict)
    /\ DOMAIN wire = PayloadKeys

\* C5: whenever the POST receives a 2xx response whose body is a JSON object
\* with an `id`, create_trace returns the decoded response unmodified, which
\* is not None and carries the identifier the endpoint returned.
C5_SuccessReturnsResponse ==
    (ct_pc = "done" /\ Is2xx(response) /\ HasId(response.body)) =>
        /\ exc = "none"
        /\ ret # None
        /\ ret = Dict(response.body.fields)
        /\ ret.items["id"] = response.body.fields["id"]

C5_Witness ==
    /\ ct_pc = "done"
    /\ response.status = 201
    /\ HasId(response.body)
    /\ ret.tag = "dict"
    /\ "id" \in DOMAIN ret.items
    /\ ret.items["id"] = "t2"

\* C6: create_trace validates nothing: every combination of arguments is
\* accepted, reaches the network call, and is sent with the values as
\* supplied, negative numbers included.
C6_NoLocalValidation ==
    /\ (ct_pc = "idle" /\ main_pc = "off") => \A a \in Args : ENABLED Enter(a)
    /\ ct_pc = "built" => ENABLED Post
    /\ Posted => SixFieldsAsSupplied
    /\ ct_pc = "done" => nposts = ncalls

C6_Witness ==
    /\ ct_pc = "inflight"
    /\ args.prompt_tokens < 0
    /\ args.output_tokens < 0
    /\ args.duration_ms < 0
    /\ wire.prompt_tokens < 0
    /\ wire.output_tokens < 0
    /\ wire.duration < 0

----------------------------------------------------------------------------
(* Properties of client.py main, checked under SpecMain *)

MainOrder == <<"gpt-4", "claude-3-opus", "gpt-3.5-turbo", "gpt-4",
               "claude-3-sonnet">>

\* C9: main issues its submissions one at a time in the fixed order, and
\* when the endpoint is reachable (no request meets a transport error) main
\* does not end by raising.
C9_SequentialAndCompletes ==
    /\ inflight \in {0, 1}
    /\ Len(sent) <= Len(MainOrder)
    /\ sent = SubSeq(MainOrder, 1, Len(sent))
    /\ ~unreachable => main_pc # "raised"

----------------------------------------------------------------------------
(* Properties of the OTel scripts, checked under SpecOtel *)

Range(f) == { f[i] : i \in DOMAIN f }

Completed == "All examples completed!" \in Range(sp_out["otel-client"])

Examples == {"simple_trace_example", "nested_trace_example",
             "gen_ai_trace_example", "trace_with_events_example"}

ExampleSpans == {"llm.call", "llm.conversation", "llm.call.1", "llm.call.2",
                 "gen_ai.completion", "llm.streaming_call"}

\* The functions whose statements come no later than statement i
FnsUpTo(i) == { OtelClientMain[k].fn : k \in 1..i }

\* C7: in otel-client.py, once tracer initialisation or an example has
\* raised, no later statement runs, the completion message is never printed
\* and the process ends with status 1; the completion message is printed
\* and the process ends with status 0 only when initialisation and all four
\* examples ran to their end without an exception.
C7_CatchAllExits ==
    LET p == "otel-client" IN
    /\ sp_exc[p] # 0 =>
        /\ sp_status[p] \in {"raising", "exit1"}
        /\ sp_pc[p] = sp_exc[p]
        /\ sp_ran[p] \subseteq FnsUpTo(sp_exc[p])
        /\ ~Completed
        /\ OtelClientMain[sp_exc[p]].fn \in {"init_tracer"} \cup Examples
    /\ sp_status[p] = "exit1" => sp_exc[p] # 0
    /\ (Completed \/ sp_status[p] = "exit0") =>
        /\ sp_exc[p] = 0
        /\ {"init_tracer"} \cup Examples \subseteq sp_ran[p]
        /\ sp_exporter[p] # {}
        /\ \A n \in ExampleSpans : Ev("end", n, "") \in Range(sp_log[p])
    /\ sp_status[p] = "exit0" => Completed

C7_Witness ==
    LET p == "otel-client" IN
    /\ sp_status[p] = "exit1"
    /\ sp_exc[p] # 0
    /\ OtelClientMain[sp_exc[p]].fn = "nested_trace_example"
    /\ "simple_trace_example" \in sp_ran[p]
    /\ "gen_ai_trace_example" \notin sp_ran[p]
    /\ ~Completed

DefaultEndpoint == "http://localhost:8080/v1/traces"

FromEnviron(p) ==
    IF "OTLP_ENDPOINT" \in DOMAIN environ[p]
    THEN environ[p]["OTLP_ENDPOINT"] ELSE DefaultEndpoint

\* C8 as stated: in both OTel scripts the exporter is given the value of
\* OTLP_ENDPOINT whenever the variable is set and the default otherwise.
C8_EnvironOverridesEverywhere ==
    \A p \in Procs : \A e \in sp_exporter[p] : e = FromEnviron(p)

\* C8 (amended): in python_otlp_client.py the exporter is given the value of
\* OTLP_ENDPOINT whenever the variable is set and the default
\* http://localhost:8080/v1/traces only when it is not set; in otel-client.py
\* the exporter is always given http://localhost:8080/v1/traces, whatever
\* the environment holds.
C8_EnvironOverridesInOtlpClient ==
    /\ \A e \in sp_exporter["python_otlp_client"] :
            e = FromEnviron("python_otlp_client")
    /\ \A e \in sp_exporter["otel-client"] : e = DefaultEndpoint

C8_Witness ==
    /\ "OTLP_ENDPOINT" \in DOMAIN environ["python_otlp_client"]
    /\ "OTLP_ENDPOINT" \in DOMAIN environ["otel-client"]
    /\ environ["otel-client"]["OTLP_ENDPOINT"] # DefaultEndpoint
    /\ sp_exporter["python_otlp_client"] = {"http://collector:4318/v1/traces"}
    /\ sp_exporter["otel-client"] = {DefaultEndpoint}

\* The position in log of the first event of this kind for this span, or 0
Idx(log, kind, name) ==
    LET hits == { i \in 1..Len(log) : log[i].ev = kind /\ log[i].span = name }
    IN  IF hits = {} THEN 0 ELSE CHOOSE i \in hits : \A j \in hits : i <= j

TopLevelSpans == {"llm-chat-completion", "gen-ai-completion", "conversation"}

ChildSpans == {"message-1", "message-2"}

\* C10: in python_otlp_client.py every child span starts after its parent
\* conversation started, as its child, and ends before it ends; message-1
\* ends before message-2 starts; no two top-level spans overlap; and the
\* provider's shutdown is invoked only after every started span has ended.
C10_SpansNestedAndClosed ==
    LET log == sp_log["python_otlp_client"]
        S(n) == Idx(log, "start", n)
        E(n) == Idx(log, "end", n)
        Sh   == Idx(log, "shutdown", "")
    IN
    /\ \A c \in ChildSpans :
        /\ S(c) > 0 =>
            /\ S("conversation") > 0
            /\ S("conversation") < S(c)
            /\ E("conversation") = 0 \/ E("conversation") > S(c)
            /\ log[S(c)].parent = "conversation"
        /\ (S(c) > 0 /\ E("conversation") > 0) =>
            (E(c) > 0 /\ E(c) < E("conversation"))
    /\ (S("message-1") > 0 /\ S("message-2") > 0) =>
        (E("message-1") > 0 /\ E("message-1") < S("message-2"))
    /\ S("message-2") > 0 => S("message-1") > 0
    /\ \A a \in TopLevelSpans :
        /\ S(a) > 0 => log[S(a)].parent = ""
        /\ \A b \in TopLevelSpans \ {a} :
            (S(a) > 0 /\ S(b) > 0 /\ S(a) < S(b)) => (E(a) > 0 /\ E(a) < S(b))
    /\ \A n \in TopLevelSpans \cup ChildSpans :
        /\ E(n) > 0 => (S(n) > 0 /\ S(n) < E(n))
        /\ (Sh > 0 /\ S(n) > 0) => (E(n) > 0 /\ E(n) < Sh)
    /\ Sh > 0 => sp_stack["python_otlp_client"] = <<>>

C10_Witness ==
    LET log == sp_log["python_otlp_client"] IN
    /\ sp_status["python_otlp_client"] = "exit0"
    /\ Idx(log, "shutdown", "") > 0
    /\ \A n \in TopLevelSpans \cup ChildSpans :
        Idx(log, "start", n) > 0 /\ Idx(log, "end", n) > Idx(log, "start", n)

====
